---- MODULE Spec2Model ----
(***************************************************************************)
(* process-venv: createEnv builds a validated, guarded container of        *)
(* environment variables and mirrors only the shared keys into             *)
(* process.env.                                                            *)
(*                                                                         *)
(* Strings are sequences of one-character strings, so that Number(...)     *)
(* and String(...) are computed digit by digit.  Typed values carry a      *)
(* type tag, as JavaScript values do.                                      *)
(***************************************************************************)
EXTENDS Integers, Sequences, FiniteSets, TLC

VARIABLES processEnv, containers, last, decided

vars == <<processEnv, containers, last, decided>>

(***************************************************************************)
(* Bounds of the model.                                                    *)
(***************************************************************************)
\* containers kept alive by the caller
MaxContainers == 2
\* length of the extends array
MaxExtends == 2

(***************************************************************************)
(* Characters, strings and typed values.                                   *)
(***************************************************************************)
Digits == <<"0", "1", "2", "3", "4", "5", "6", "7", "8", "9">>

IsDigit(c) == \E i \in 1..10 : Digits[i] = c

DigitVal(c) == (CHOOSE i \in 1..10 : Digits[i] = c) - 1

StrV(s) == [type |-> "string", str |-> s, num |-> 0]

NumV(n) == [type |-> "number", str |-> <<>>, num |-> n]

NaNV == [type |-> "NaN", str |-> <<>>, num |-> 0]

Undefined == [type |-> "undefined", str |-> <<>>, num |-> 0]

\* a method inherited from Object.prototype
FunctionV == [type |-> "function", str |-> <<>>, num |-> 0]

RECURSIVE ParseDecimal(_)
ParseDecimal(s) ==
  IF s = <<>> THEN 0
  ELSE 10 * ParseDecimal(SubSeq(s, 1, Len(s) - 1)) + DigitVal(s[Len(s)])

\* Number(s) of a string: "" is 0, a digit string its decimal value, else NaN
Number(s) ==
  IF \A i \in 1..Len(s) : IsDigit(s[i]) THEN NumV(ParseDecimal(s)) ELSE NaNV

RECURSIVE ToDecimal(_)
ToDecimal(n) ==
  IF n < 10 THEN <<Digits[n + 1]>>
  ELSE ToDecimal(n \div 10) \o <<Digits[(n % 10) + 1]>>

\* a plausible slip: the value is written as it is, without conversion
StringNoConversion(v) == v.str

\* String(v): the canonical string form of a typed value
String(v) ==
  CASE v.type = "string" -> v.str
    [] v.type = "number" -> ToDecimal(v.num)
    [] v.type = "NaN" -> <<"N", "a", "N">>
    [] OTHER -> <<"u", "n", "d", "e", "f", "i", "n", "e", "d">>

(***************************************************************************)
(* Objects: a plain object is a function from its own keys to values.      *)
(***************************************************************************)
EmptyObject == [k \in {} |-> Undefined]

\* the properties every object literal inherits from Object.prototype
ObjectPrototype ==
  {"constructor", "hasOwnProperty", "isPrototypeOf", "propertyIsEnumerable",
   "toLocaleString", "toString", "valueOf", "__proto__"}

\* prop in target: an own property, or one inherited through the prototype chain
In(prop, target) == prop \in DOMAIN target \/ prop \in ObjectPrototype

\* Reflect.get(target, prop): the own value, else the inherited one, else undefined
ReflectGet(target, prop) ==
  IF prop \in DOMAIN target THEN target[prop]
  ELSE IF prop \in ObjectPrototype THEN FunctionV
       ELSE Undefined

\* Object.assign that keeps the target's value on a collision
ObjectAssignKeepTarget(target, source) ==
  [k \in DOMAIN target \cup DOMAIN source |->
     IF k \in DOMAIN target THEN target[k] ELSE source[k]]

\* Object.assign(target, source): the source's own keys overwrite
ObjectAssign(target, source) ==
  [k \in DOMAIN target \cup DOMAIN source |->
     IF k \in DOMAIN source THEN source[k] ELSE target[k]]

(***************************************************************************)
(* Field validators of the test schemas (zod).                             *)
(***************************************************************************)
DefaultPort == 3000

\* z.coerce.number().default(3000)
PortField == [kind |-> "coerceNumber", hasDefault |-> TRUE, default |-> NumV(DefaultPort)]

\* z.string()
ApiKeyField == [kind |-> "string", hasDefault |-> FALSE, default |-> Undefined]

SchemaKeys == {"PORT", "API_KEY"}

FieldOf(k) == IF k = "PORT" THEN PortField ELSE ApiKeyField

\* the schema dictionaries a caller passes
Schemas == {[k \in S |-> FieldOf(k)] : S \in SUBSET SchemaKeys}

\* field["~standard"].validate(input), input a raw value or undefined:
\* [ok, value]
FieldValidate(field, present, input) ==
  IF ~present
  THEN IF field.hasDefault THEN [ok |-> TRUE, value |-> field.default]
       ELSE [ok |-> FALSE, value |-> Undefined]
  ELSE IF field.kind = "coerceNumber"
       THEN IF Number(input).type = "NaN" THEN [ok |-> FALSE, value |-> Undefined]
            ELSE [ok |-> TRUE, value |-> Number(input)]
       ELSE [ok |-> TRUE, value |-> StrV(input)]

(***************************************************************************)
(* Raw merge stage.                                                        *)
(***************************************************************************)
RawValues(k) == IF k = "PORT" THEN {<<"8">>, <<"x">>} ELSE {<<"k">>}

\* string-to-string mappings over the schema keys
RawEnvs ==
  UNION {{f \in [S -> {<<"8">>, <<"x">>, <<"k">>}] : \A k \in S : f[k] \in RawValues(k)} :
           S \in SUBSET SchemaKeys}

\* the optional second argument of createEnv: absent, an object of the
\* caller's own, or process.env itself
NoInitialEnv == [given |-> FALSE, alias |-> FALSE, env |-> EmptyObject]

ProcessEnvItself == [given |-> TRUE, alias |-> TRUE, env |-> EmptyObject]

InitialEnvs ==
  {NoInitialEnv, ProcessEnvItself}
    \cup {[given |-> TRUE, alias |-> FALSE, env |-> e] : e \in RawEnvs}

\* the object initialEnv refers to when createEnv is entered
Resolve(initialEnv, table) ==
  IF initialEnv.alias THEN [initialEnv EXCEPT !.env = table] ELSE initialEnv

\* what dotenv's config() returns: output.parsed, or nothing when no file is read
NoFile == [hasParsed |-> FALSE, parsed |-> EmptyObject]

DotenvOutputs ==
  {NoFile,
   [hasParsed |-> TRUE, parsed |-> [k \in {"PORT"} |-> <<"8">>]],
   [hasParsed |-> TRUE, parsed |-> [k \in {"API_KEY"} |-> <<"k">>]]}

\* config() without the processEnv option: dotenv populates process.env itself
\* with the parsed keys that are not set there yet
ConfigPopulatesGlobal(table, loaded, output) ==
  IF loaded /\ output.hasParsed THEN ObjectAssign(output.parsed, table) ELSE table

\* config({ ..., processEnv: {} }): dotenv populates the object it is given,
\* so process.env is as it was
ConfigTable(table, loaded, output) == table

\* a raw merge that forgets the explicit mapping and always reads the ambient table
RawEnvAlwaysAmbient(initialEnv, ambient, output) ==
  IF output.hasParsed THEN ObjectAssign(ambient, output.parsed) ELSE ambient

\* rawEnv: the explicit mapping verbatim, else { ...process.env, ...output.parsed }
RawEnv(initialEnv, ambient, output) ==
  IF initialEnv.given THEN initialEnv.env
  ELSE IF output.hasParsed THEN ObjectAssign(ambient, output.parsed)
       ELSE ambient

(***************************************************************************)
(* Validation stage.                                                       *)
(***************************************************************************)
Validations == {"dictionary", "async"}

Pending == [tag |-> "promise", value |-> EmptyObject, issues |-> {}]

\* parseWithDictionary(schema, rawEnv): every field validated on rawEnv[key];
\* any issue makes the whole result a failure
parseWithDictionary(schema, rawEnv) ==
  LET result == [k \in DOMAIN schema |->
                   FieldValidate(schema[k], k \in DOMAIN rawEnv,
                                 IF k \in DOMAIN rawEnv THEN rawEnv[k] ELSE <<>>)]
      issues == {k \in DOMAIN schema : ~result[k].ok}
  IN IF issues # {}
     THEN [tag |-> "issues", value |-> EmptyObject, issues |-> issues]
     ELSE [tag |-> "value", value |-> [k \in DOMAIN schema |-> result[k].value],
           issues |-> {}]

\* options.createFinalSchema?.(schema)['~standard'].validate(rawEnv)
\*   ?? parseWithDictionary(schema, rawEnv)
\* "async": a createFinalSchema whose validate returns a Promise
Validate(validation, schema, rawEnv) ==
  IF validation = "async" THEN Pending ELSE parseWithDictionary(schema, rawEnv)

\* a synchrony test that lets a Promise through
IsPromiseNever(parsed) == FALSE

\* ensureSynchronous(parsed, ...) throws on a Promise
IsPromise(parsed) == parsed.tag = "promise"

\* a validation stage that never sees the issues
HasIssuesNever(parsed) == FALSE

\* if (parsed.issues) throw
HasIssues(parsed) == parsed.tag = "issues"

(***************************************************************************)
(* Extension merge stage.                                                  *)
(***************************************************************************)
\* (options.extends ?? []).reduce((acc, curr) => Object.assign(acc, curr), {})
RECURSIVE ReduceExtends(_, _)
ReduceExtends(extends, acc) ==
  IF extends = <<>> THEN acc
  ELSE ReduceExtends(Tail(extends), ObjectAssign(acc, Head(extends)))

\* a merge in which an extended container's value survives the validated one
CombinedEnvExtendsWin(extends, value) ==
  ObjectAssign(value, ReduceExtends(extends, EmptyObject))

\* a merge in which an earlier extended container survives a later one
CombinedEnvFirstWins(extends, value) ==
  LET RECURSIVE Fold(_, _)
      Fold(es, acc) ==
        IF es = <<>> THEN acc
        ELSE Fold(Tail(es), ObjectAssignKeepTarget(acc, Head(es)))
  IN ObjectAssign(Fold(extends, EmptyObject), value)

\* env = Object.assign(extends.reduce(...), parsed.value)
CombinedEnv(extends, value) ==
  ObjectAssign(ReduceExtends(extends, EmptyObject), value)

(***************************************************************************)
(* Environment projection stage.                                           *)
(***************************************************************************)
\* a projection that writes the shared keys and removes nothing
ProjectNoDelete(table, env, shared) ==
  [k \in DOMAIN table \cup (DOMAIN env \cap shared) |->
     IF k \in DOMAIN env /\ k \in shared THEN String(env[k]) ELSE table[k]]

\* a projection that removes every key that is not shared, in env or not
ProjectPurge(table, env, shared) ==
  [k \in DOMAIN env \cap shared |-> String(env[k])]

\* for (const key in env)
\*   shared.includes(key) ? process.env[key] = String(env[key]) : delete process.env[key]
Project(table, env, shared) ==
  [k \in (DOMAIN table \ (DOMAIN env \ shared)) \cup (DOMAIN env \cap shared) |->
     IF k \in DOMAIN env /\ k \in shared THEN String(env[k]) ELSE table[k]]

(***************************************************************************)
(* Guarded container: the Proxy's traps.                                   *)
(***************************************************************************)
NoError == [class |-> "none", kind |-> "none", key |-> ""]

InvalidEnvironmentError(kind, key) ==
  [class |-> "InvalidEnvironmentError", kind |-> kind, key |-> key]

TypeError(key) == [class |-> "TypeError", kind |-> "read-only", key |-> key]

\* get(target, prop): throws unless prop in target, else Reflect.get
GetTrap(target, prop) ==
  IF ~In(prop, target)
  THEN [threw |-> TRUE, error |-> InvalidEnvironmentError("not-in-schema", prop),
        value |-> Undefined]
  ELSE [threw |-> FALSE, error |-> NoError, value |-> ReflectGet(target, prop)]

\* a set trap that forwards to the target
SetTrapForwards(target, prop, value) ==
  [threw |-> FALSE, error |-> NoError,
   target |-> ObjectAssign(target, [k \in {prop} |-> value])]

\* set(_target, prop): always throws
SetTrap(target, prop, value) ==
  [threw |-> TRUE, error |-> InvalidEnvironmentError("immutable-set", prop),
   target |-> target]

\* deleteProperty(_target, prop): always throws
DeleteTrap(target, prop) ==
  [threw |-> TRUE, error |-> InvalidEnvironmentError("immutable-delete", prop),
   target |-> target]

\* Object.freeze(env), in a strict-mode module: a read is a plain property read
FrozenGet(target, prop) ==
  [threw |-> FALSE, error |-> NoError, value |-> ReflectGet(target, prop)]

\* an assignment to a frozen object throws a TypeError
FrozenSet(target, prop, value) ==
  [threw |-> TRUE, error |-> TypeError(prop), target |-> target]

\* delete on a frozen object: a TypeError for an own key, a no-op otherwise
FrozenDelete(target, prop) ==
  IF prop \in DOMAIN target
  THEN [threw |-> TRUE, error |-> TypeError(prop), target |-> target]
  ELSE [threw |-> FALSE, error |-> NoError, target |-> target]

(***************************************************************************)
(* State.                                                                  *)
(*   processEnv  the global environment table, process.env                 *)
(*   containers  the containers createEnv has returned and the caller      *)
(*               still holds, each with its target object and its guard;   *)
(*               containers are immutable values, and two with the same    *)
(*               target and guard are not told apart                       *)
(*   last        the last operation: its arguments, its outcome            *)
(*   decided     history, kept by SpecHistory only: for each key, what the *)
(*               latest successful createEnv whose combined environment    *)
(*               holds the key decided for it in process.env, until other  *)
(*               code of the process writes or deletes the key there       *)
(***************************************************************************)
\* the property names a caller reads, writes and deletes
PropKeys == SchemaKeys \cup {"NON_EXISTENT_VAR", "toString"}

NewValue == StrV(<<"n">>)

NoContainer == [env |-> EmptyObject, guard |-> "none"]

\* the extends arrays a caller can pass: held containers, in any order
ExtendsArrays ==
  {e \in UNION {[1..n -> containers] : n \in 0..MaxExtends} :
     \A i, j \in DOMAIN e : i # j => e[i] # e[j]}

\* no createEnv has decided the key, or other code has touched it since
NoDecision == [made |-> FALSE, shared |-> FALSE, value |-> Undefined]

NoDecisions == [k \in SchemaKeys |-> NoDecision]

\* the loop over the keys of env decides each of them: shared with its value, or not
Decide(was, env, shared) ==
  [k \in SchemaKeys |->
     IF k \in DOMAIN env
     THEN [made |-> TRUE, shared |-> k \in shared,
           value |-> IF k \in shared THEN env[k] ELSE Undefined]
     ELSE was[k]]

Forget(was, key) == [was EXCEPT ![key] = NoDecision]

\* an explicit mapping that the projection loop writes into
MappingAfterProjected(initialEnv, tableAfter) == tableAfter

\* the contents, when createEnv is left, of the object passed as initialEnv:
\* nothing assigns to rawEnv's properties, and process.env is what the
\* projection loop writes and deletes in
MappingAfter(initialEnv, tableAfter) ==
  IF initialEnv.alias THEN tableAfter ELSE initialEnv.env

NoCall ==
  [schema |-> EmptyObject, validation |-> "none", initialEnv |-> NoInitialEnv,
   file |-> NoFile, loaded |-> FALSE, shared |-> {}, extends |-> <<>>,
   rawEnv |-> EmptyObject, value |-> EmptyObject, env |-> EmptyObject,
   before |-> EmptyObject, repeat |-> FALSE, mappingAfter |-> EmptyObject,
   decidedBefore |-> NoDecisions]

Last(op, outcome, error, target, key, value, call) ==
  [op |-> op, outcome |-> outcome, error |-> error, target |-> target,
   key |-> key, value |-> value, call |-> call]

\* no operation is under observation: the caller is between two statements
Idle == Last("idle", "none", NoError, NoContainer, "", Undefined, NoCall)

Init ==
  /\ processEnv \in RawEnvs
  /\ containers = {}
  /\ last = Idle
  /\ decided = NoDecisions

\* createEnv from rawEnv on: validate, merge the extended containers, project, guard
Construct(guard, repeat, schema, validation, initialEnv, file, loaded, shared, extends, rawEnv) ==
  LET parsed == Validate(validation, schema, rawEnv)
      table == ConfigTable(processEnv, loaded, IF loaded THEN file ELSE NoFile)
      exts == [i \in DOMAIN extends |-> extends[i].env]
      call == [schema |-> schema, validation |-> validation,
               initialEnv |-> initialEnv, file |-> file, loaded |-> loaded,
               shared |-> shared, extends |-> exts, rawEnv |-> rawEnv,
               value |-> EmptyObject, env |-> EmptyObject, before |-> processEnv,
               repeat |-> repeat, mappingAfter |-> MappingAfter(initialEnv, table),
               decidedBefore |-> decided]
  IN IF IsPromise(parsed)
     THEN /\ last' = Last("createEnv", "threw",
                          InvalidEnvironmentError("async", ""), NoContainer, "", Undefined, call)
          /\ processEnv' = table
          /\ UNCHANGED containers
     ELSE IF HasIssues(parsed)
     THEN /\ last' = Last("createEnv", "threw",
                          InvalidEnvironmentError("validation", ""), NoContainer, "", Undefined, call)
          /\ processEnv' = table
          /\ UNCHANGED containers
     ELSE LET env == CombinedEnv(exts, parsed.value)
              venv == [env |-> env, guard |-> guard]
              projected == Project(table, env, shared)
          IN /\ processEnv' = projected
             /\ containers' = IF Cardinality(containers) < MaxContainers
                              THEN containers \cup {venv}
                              ELSE containers
             /\ last' = Last("createEnv", "returned", NoError, venv, "", Undefined,
                             [call EXCEPT !.value = parsed.value, !.env = env,
                                          !.mappingAfter = MappingAfter(initialEnv, projected)])

\* the calls a caller makes: [schema, validation, initialEnv, file, shared],
\* file being what dotenv would parse from options.path.  A call with an
\* explicit mapping is tried with no file and with the file that holds
\* API_KEY, a call on process.env itself with no file; the validator that
\* returns a Promise is a createFinalSchema, tried on one mapping
Calls ==
  {c \in [schema : Schemas, validation : Validations, initialEnv : InitialEnvs,
          file : DotenvOutputs, shared : SUBSET SchemaKeys] :
     /\ c.initialEnv.given => (c.file.hasParsed => "API_KEY" \in DOMAIN c.file.parsed)
     /\ c.initialEnv.alias => c.file = NoFile
     /\ c.validation = "async" =>
          /\ c.file = NoFile
          /\ c.initialEnv.given /\ ~c.initialEnv.alias
          /\ DOMAIN c.initialEnv.env = SchemaKeys
          /\ c.initialEnv.env["PORT"] = <<"8">>}

\* one createEnv(options, initialEnv) call out of calls, returning a Proxy
Invocation(calls) ==
  /\ last = Idle
  /\ \E c \in calls, extends \in ExtendsArrays :
    LET initialEnv == Resolve(c.initialEnv, processEnv)
        loaded == ~initialEnv.given
        output == IF loaded THEN c.file ELSE NoFile
    IN Construct("proxy", FALSE, c.schema, c.validation, initialEnv, c.file, loaded,
                 c.shared, extends, RawEnv(initialEnv, processEnv, output))

\* createEnv(options, initialEnv)
createEnv == Invocation(Calls) /\ UNCHANGED decided

\* the calls of the history: the default validation, no file to read
HistoryCalls == {c \in Calls : c.validation = "dictionary" /\ c.file = NoFile}

\* createEnv(options, initialEnv), with the history of its decisions kept
createEnvRecorded ==
  /\ Invocation(HistoryCalls)
  /\ decided' = IF last'.outcome = "returned"
                THEN Decide(decided, last'.call.env, last'.call.shared)
                ELSE decided

\* the caller repeats, once, the createEnv call it has just made: the same
\* options, the same initialEnv object, the same extended containers
createEnvAgain ==
  /\ last.op = "createEnv"
  /\ ~last.call.repeat
  /\ LET c == last.call
         initialEnv == Resolve(c.initialEnv, processEnv)
         loaded == ~initialEnv.given
         output == IF loaded THEN c.file ELSE NoFile
         extends == [i \in DOMAIN c.extends |-> [env |-> c.extends[i], guard |-> "proxy"]]
     IN Construct("proxy", TRUE, c.schema, c.validation, initialEnv, c.file, loaded,
                  c.shared, extends, RawEnv(initialEnv, processEnv, output))
  /\ UNCHANGED decided

\* rawEnv of src/index.ts: the explicit mapping, else output.parsed || {}
RawEnvIndex(initialEnv, ambient, output) ==
  IF initialEnv.given THEN initialEnv.env
  ELSE IF output.hasParsed THEN output.parsed
       ELSE EmptyObject

\* createEnv(options, initialEnv) of src/index.ts, returning Object.freeze(env)
createEnvIndex ==
  /\ last = Idle
  /\ \E c \in Calls, extends \in ExtendsArrays :
    LET initialEnv == Resolve(c.initialEnv, processEnv)
        loaded == ~initialEnv.given
        output == IF loaded THEN c.file ELSE NoFile
    IN Construct("frozen", FALSE, c.schema, c.validation, initialEnv, c.file, loaded,
                 c.shared, extends, RawEnvIndex(initialEnv, processEnv, output))
  /\ UNCHANGED decided

\* venv[key]
Get ==
  /\ last = Idle
  /\ \E c \in containers, key \in PropKeys :
    LET r == IF c.guard = "proxy" THEN GetTrap(c.env, key) ELSE FrozenGet(c.env, key)
    IN /\ last' = Last("get", IF r.threw THEN "threw" ELSE "returned", r.error, c, key,
                       r.value, NoCall)
       /\ UNCHANGED <<processEnv, containers, decided>>

\* venv[key] = value
Set ==
  /\ last = Idle
  /\ \E c \in containers, key \in PropKeys :
    LET r == IF c.guard = "proxy" THEN SetTrap(c.env, key, NewValue)
             ELSE FrozenSet(c.env, key, NewValue)
    IN /\ containers' = (containers \ {c}) \cup {[c EXCEPT !.env = r.target]}
       /\ last' = Last("set", IF r.threw THEN "threw" ELSE "returned", r.error, c, key,
                       NewValue, NoCall)
       /\ UNCHANGED <<processEnv, decided>>

\* delete venv[key]
Delete ==
  /\ last = Idle
  /\ \E c \in containers, key \in PropKeys :
    LET r == IF c.guard = "proxy" THEN DeleteTrap(c.env, key) ELSE FrozenDelete(c.env, key)
    IN /\ containers' = (containers \ {c}) \cup {[c EXCEPT !.env = r.target]}
       /\ last' = Last("delete", IF r.threw THEN "threw" ELSE "returned", r.error, c, key,
                       Undefined, NoCall)
       /\ UNCHANGED <<processEnv, decided>>

\* other code of the process assigns process.env[key]
ProcessEnvWrite ==
  /\ last = Idle
  /\ \E key \in SchemaKeys :
    \E v \in RawValues(key) :
      /\ processEnv' = ObjectAssign(processEnv, [k \in {key} |-> v])
      /\ last' = Last("envWrite", "returned", NoError, NoContainer, key, StrV(v), NoCall)
      /\ decided' = Forget(decided, key)
      /\ UNCHANGED containers

\* other code of the process deletes process.env[key]
ProcessEnvDelete ==
  /\ last = Idle
  /\ \E key \in DOMAIN processEnv :
    /\ processEnv' = [k \in DOMAIN processEnv \ {key} |-> processEnv[k]]
    /\ last' = Last("envDelete", "returned", NoError, NoContainer, key, Undefined, NoCall)
    /\ decided' = Forget(decided, key)
    /\ UNCHANGED containers

\* the caller has seen the outcome of the last operation and goes on
Continue ==
  /\ last # Idle
  /\ last' = Idle
  /\ UNCHANGED <<processEnv, containers, decided>>

Next ==
  createEnv \/ createEnvAgain \/ Get \/ Set \/ Delete \/ ProcessEnvWrite \/ ProcessEnvDelete \/ Continue

Spec == Init /\ [][Next]_vars

\* the program built from src/index.ts
NextIndex ==
  createEnvIndex \/ Get \/ Set \/ Delete \/ ProcessEnvWrite \/ ProcessEnvDelete
    \/ Continue

SpecIndex == Init /\ [][NextIndex]_vars

\* the program with the history of the decisions of its createEnv calls
NextHistory ==
  createEnvRecorded \/ ProcessEnvWrite \/ ProcessEnvDelete \/ Continue

SpecHistory == Init /\ [][NextHistory]_vars

(***************************************************************************)
(* Properties.                                                             *)
(***************************************************************************)
Returned == last.op = "createEnv" /\ last.outcome = "returned"

Threw == last.op = "createEnv" /\ last.outcome = "threw"

\* the last extended container that defines key K
LastDefining(extends, K) ==
  CHOOSE i \in DOMAIN extends :
    /\ K \in DOMAIN extends[i]
    /\ \A j \in DOMAIN extends : j > i => K \notin DOMAIN extends[j]

OwnValue(schema, rawEnv, K) ==
  IF K \notin DOMAIN rawEnv THEN schema[K].default
  ELSE IF schema[K].kind = "coerceNumber" THEN NumV(ParseDecimal(rawEnv[K]))
       ELSE StrV(rawEnv[K])

IsStringOf(s, v) ==
  IF v.type = "string" THEN s = v.str
  ELSE /\ v.type = "number"
       /\ Len(s) >= 1
       /\ \A i \in 1..Len(s) : IsDigit(s[i])
       /\ (Len(s) > 1 => s[1] # "0")
       /\ ParseDecimal(s) = v.num

\* C3: right after a successful createEnv every key of the combined
\* environment that is shared is in process.env with the string form of the
\* container's value, and every key of it that is not shared is absent from
\* process.env.
C3_SharedKeyProjection ==
  Returned =>
    \A K \in DOMAIN last.call.env :
      IF K \in last.call.shared
      THEN K \in DOMAIN processEnv /\ IsStringOf(processEnv[K], last.call.env[K])
      ELSE K \notin DOMAIN processEnv

\* C3 witness: a shared number is written as a string and a key that was in
\* process.env before the call, not shared, is gone.
C3_Witness ==
  /\ Returned
  /\ \E K \in DOMAIN last.call.env \cap last.call.shared :
       last.call.env[K].type = "number"
  /\ \E K \in DOMAIN last.call.env \ last.call.shared :
       K \in DOMAIN last.call.before

Invalid(schema, rawEnv) ==
  \E K \in DOMAIN schema :
    \/ ~schema[K].hasDefault /\ K \notin DOMAIN rawEnv
    \/ /\ K \in DOMAIN rawEnv
       /\ schema[K].kind = "coerceNumber"
       /\ \E i \in 1..Len(rawEnv[K]) : ~IsDigit(rawEnv[K][i])

\* C5: a createEnv whose raw input lacks a required key or holds a value its
\* validator refuses throws InvalidEnvironmentError and returns no container,
\* none of the fields that did validate being adopted.
C5_ValidationFailureAborts ==
  [][(last'.op = "createEnv" /\ Invalid(last'.call.schema, last'.call.rawEnv)) =>
       /\ last'.outcome = "threw"
       /\ last'.error.class = "InvalidEnvironmentError"
       /\ last'.target = NoContainer
       /\ last'.call.env = EmptyObject
       /\ containers' = containers]_vars

\* C5 witness: one field validates and another is missing.
C5_Witness ==
  /\ Threw
  /\ last.error.kind = "validation"
  /\ "PORT" \in DOMAIN last.call.schema /\ "PORT" \in DOMAIN last.call.rawEnv
  /\ last.call.rawEnv["PORT"] = <<"8">>
  /\ "API_KEY" \in DOMAIN last.call.schema /\ "API_KEY" \notin DOMAIN last.call.rawEnv

\* C6: createEnv changes process.env only when it returns a container; when
\* it throws, for a validation failure or for an asynchronous validation,
\* process.env is as it was before the call.
C6_NoProjectionOnFailure ==
  [][(last'.op = "createEnv" /\ processEnv' # processEnv) =>
       last'.outcome = "returned"]_vars

\* C6 witness: a call that read a file with a key process.env lacks has thrown.
C6_Witness ==
  /\ Threw
  /\ last.call.loaded /\ last.call.file.hasParsed
  /\ ~(DOMAIN last.call.file.parsed \subseteq DOMAIN processEnv)
  /\ processEnv = last.call.before

C8_UndefinedKeyRead ==
  (last.op = "get" /\ last.target.guard = "proxy") =>
    LET env == last.target.env
    IN IF last.key \in DOMAIN env
       THEN last.outcome = "returned" /\ last.value = env[last.key]
       ELSE /\ last.outcome = "threw"
            /\ last.error = InvalidEnvironmentError("not-in-schema", last.key)

\* C9: every write and every delete on a container, on a key it has or not,
\* throws InvalidEnvironmentError naming the key and saying that environment
\* variables are immutable.
C9_MutationGuard ==
  last.op \in {"set", "delete"} =>
    /\ last.outcome = "threw"
    /\ last.error = InvalidEnvironmentError(
                      IF last.op = "set" THEN "immutable-set" ELSE "immutable-delete",
                      last.key)

\* C10: a container createEnv has returned keeps its keys and its values
\* through every later step: reads, refused writes and deletes, later
\* createEnv calls, changes of process.env.
C10_ContainerImmutable ==
  [][\A c \in containers : c \in containers']_vars

\* C10 witness: a write to a key the container holds has been attempted on
\* a container that an earlier createEnv returned, and the container is held
\* with the value it had.
C10_Witness ==
  /\ last.op = "set"
  /\ last.target \in containers
  /\ last.key \in DOMAIN last.target.env
  /\ last.target.env[last.key] # last.value

\* C11: a createEnv given an explicit raw mapping does not invoke the file
\* loader and validates the mapping as it is: the call throws exactly when
\* the mapping itself lacks a required key or holds a refused value, and a
\* returned container holds for every key of the schema the value the
\* mapping gives it, or the default; what only the file or only process.env
\* holds is not used.
C11_ExplicitMappingBypass ==
  (last.op = "createEnv" /\ last.call.initialEnv.given
     /\ last.call.validation = "dictionary") =>
    LET c == last.call
        mapping == c.initialEnv.env
    IN /\ ~c.loaded
       /\ c.rawEnv = mapping
       /\ (last.outcome = "threw") = Invalid(c.schema, mapping)
       /\ last.outcome = "returned" =>
            \A K \in DOMAIN c.schema : c.env[K] = OwnValue(c.schema, mapping, K)

\* C11 witness: the mapping lacks a required key that both the file and
\* process.env hold, and the call has thrown.
C11_Witness ==
  /\ Threw
  /\ last.call.initialEnv.given /\ ~last.call.initialEnv.alias
  /\ "API_KEY" \in DOMAIN last.call.schema
  /\ "API_KEY" \notin DOMAIN last.call.initialEnv.env
  /\ "API_KEY" \in DOMAIN last.call.before
  /\ last.call.file.hasParsed /\ "API_KEY" \in DOMAIN last.call.file.parsed

\* C12: a createEnv without an explicit raw mapping validates process.env
\* overlaid with the loader's parsed output: a key of the file has the
\* file's value, a key of process.env alone has its ambient value, and there
\* is no other key.
C12_AmbientFallbackMerge ==
  (last.op = "createEnv" /\ ~last.call.initialEnv.given) =>
    LET c == last.call
        parsed == IF c.file.hasParsed THEN c.file.parsed ELSE EmptyObject
    IN /\ DOMAIN c.rawEnv = DOMAIN c.before \cup DOMAIN parsed
       /\ \A K \in DOMAIN parsed : c.rawEnv[K] = parsed[K]
       /\ \A K \in DOMAIN c.before \ DOMAIN parsed : c.rawEnv[K] = c.before[K]

\* C13: a createEnv repeated with the same explicit raw mapping, schema,
\* extends and shared set has the outcome of the first call, returns a
\* container with the same keys and values, and leaves process.env as the
\* first call left it.
C13_ExplicitIdempotence ==
  [][(/\ last.op = "createEnv" /\ last'.op = "createEnv"
      /\ last'.call.initialEnv.given
      /\ last'.call.initialEnv.env = last.call.initialEnv.env
      /\ last'.call.schema = last.call.schema
      /\ last'.call.extends = last.call.extends
      /\ last'.call.shared = last.call.shared) =>
       /\ last'.outcome = last.outcome
       /\ last'.target = last.target
       /\ last'.call.env = last.call.env
       /\ processEnv' = processEnv]_vars

\* C13 witness: the repeated call has returned, with a key projected as a
\* string and another removed by the first call.
C13_Witness ==
  /\ Returned
  /\ last.call.repeat
  /\ last.call.initialEnv.given /\ ~last.call.initialEnv.alias
  /\ \E K \in DOMAIN last.call.env \cap last.call.shared :
       last.call.env[K].type = "number" /\ K \in DOMAIN processEnv
  /\ DOMAIN last.call.env \ last.call.shared # {}
  /\ last.call.extends # <<>>

\* C14: a createEnv without an explicit raw mapping, repeated with the same
\* options after it has returned, returns again, with the same container
\* values, and leaves process.env as the first call left it.
C14_PipelineIdempotence ==
  [][(/\ last.op = "createEnv" /\ last.outcome = "returned"
      /\ last'.op = "createEnv"
      /\ ~last'.call.initialEnv.given
      /\ last'.call.file = last.call.file
      /\ last'.call.schema = last.call.schema
      /\ last'.call.extends = last.call.extends
      /\ last'.call.shared = last.call.shared) =>
       /\ last'.outcome = "returned"
       /\ last'.call.env = last.call.env
       /\ processEnv' = processEnv]_vars

\* C15: a createEnv whose validation call returns a Promise throws
\* InvalidEnvironmentError for the asynchronous validation, which is not the
\* error of a validation failure; it returns no container, merges nothing
\* and leaves process.env as it was.
C15_AsyncValidationRejected ==
  [][(last'.op = "createEnv" /\ last'.call.validation = "async") =>
       /\ last'.outcome = "threw"
       /\ last'.error.class = "InvalidEnvironmentError"
       /\ last'.error.kind = "async"
       /\ last'.error # InvalidEnvironmentError("validation", "")
       /\ last'.target = NoContainer
       /\ last'.call.env = EmptyObject
       /\ containers' = containers
       /\ processEnv' = processEnv]_vars

\* C15 witness: the rejected call had containers to extend, keys to share
\* and keys to remove from process.env.
C15_Witness ==
  /\ Threw
  /\ last.call.validation = "async"
  /\ last.call.extends # <<>>
  /\ last.call.shared # {}
  /\ DOMAIN last.call.before \ last.call.shared # {}

C17_ProjectionFrame ==
  Returned =>
    \A K \in (DOMAIN last.call.before \cup DOMAIN processEnv \cup last.call.shared)
               \ DOMAIN last.call.env :
      /\ (K \in DOMAIN processEnv) = (K \in DOMAIN last.call.before)
      /\ K \in DOMAIN processEnv => processEnv[K] = last.call.before[K]

\* C17 witness: a shared key outside the combined environment was in
\* process.env and stays, while a key of the combined environment is removed.
C17_Witness ==
  /\ Returned
  /\ \E K \in last.call.shared \ DOMAIN last.call.env :
       K \in DOMAIN last.call.before /\ K \in DOMAIN processEnv
  /\ \E K \in DOMAIN last.call.env \ last.call.shared :
       K \in DOMAIN last.call.before /\ K \notin DOMAIN processEnv

\* C18: after any sequence of createEnv calls, for every key that a
\* successful call has held in its combined environment and that no other
\* code has written or deleted in process.env since: if the latest such call
\* listed the key in shared, process.env holds the key with the string form
\* of that call's value, and otherwise process.env does not hold the key.
C18_LatestConstructionDecides ==
  \A K \in SchemaKeys :
    decided[K].made =>
      IF decided[K].shared
      THEN K \in DOMAIN processEnv /\ IsStringOf(processEnv[K], decided[K].value)
      ELSE K \notin DOMAIN processEnv

\* C18 witness: a key that an earlier call shared is held by the latest call
\* through an extended container only, is not listed in shared there, and is
\* gone from process.env.
C18_Witness ==
  /\ Returned
  /\ \E K \in DOMAIN last.call.env \ DOMAIN last.call.value :
       /\ \E i \in DOMAIN last.call.extends : K \in DOMAIN last.call.extends[i]
       /\ last.call.decidedBefore[K].made /\ last.call.decidedBefore[K].shared
       /\ K \in DOMAIN last.call.before
       /\ K \notin last.call.shared
       /\ K \notin DOMAIN processEnv
       /\ decided[K].made /\ ~decided[K].shared

====
